---- MODULE Spec2Model ----
(***************************************************************************)
(* A model of the combat core of frame_assault: the Mech (Hit, Fire,       *)
(* attack, isValidMove), the EnemyMech and PlayerMech tick handlers, the   *)
(* Weapon and the two movement strategies.                                 *)
(*                                                                         *)
(* Conventions                                                             *)
(*  - The float64 step accumulators of the strategies are held in fixed    *)
(*    point, in hundredths of a cell: minStepThreshold (1.0) is 100 and    *)
(*    moveStep (0.1) is 10. A direction component is cut to a whole        *)
(*    number of hundredths per call.                                       *)
(*  - hitRate and the random draw of Weapon.Fire are held in tenths:       *)
(*    hitRate in 0..10 stands for 0.0..1.0, the draw u in 0..9 for [0,1).  *)
(*  - A Go panic ends the process: fault becomes TRUE and no operation     *)
(*    runs afterwards.                                                     *)
(*  - The repository holds two revisions of package movement, the file     *)
(*    mech/movement/strategy.go and the copy that follows package mech in  *)
(*    mech/mech.go; impl says which one the build links.                   *)
(***************************************************************************)
EXTENDS Integers, Sequences, FiniteSets, TLC

VARIABLES
    impl,       \* revision of package movement in the build
    structure,  \* Mech.structure of every actor
    pos,        \* Mech.entity position of every actor
    prev,       \* Mech.prevX, Mech.prevY of every actor
    tickCount,  \* EnemyMech.tickCount of every enemy
    strat,      \* EnemyMech.moveStrategy of every enemy
    entities,   \* level.Entities: what was handed to level.AddEntity
    fault,      \* the process has panicked
    last,       \* the last operation, its arguments and what it returned
    pts,        \* waypoint list handed to NewPatrolStrategy
    ps,         \* what NewPatrolStrategy gave back for pts
    cur,        \* position fed back into NextMove
    ticks,      \* ticks of live enemies so far
    age,        \* ticks each enemy has taken while not destroyed, since NewEnemyMech
    gen,        \* GenerateEnemyMechs: its argument, its locals and its result so far
    rejected,   \* for each enemy, when and where isValidMove last turned its move down
    calls       \* NextMove calls in progress on the strategy ps, one per execution context
vars == <<impl, structure, pos, prev, tickCount, strat, entities, fault,
          last, pts, ps, cur, ticks, age, gen, rejected, calls>>

-----------------------------------------------------------------------------
(* Program constants *)

maxLevelWidth == 60
maxLevelHeight == 40
minCoordinate == -maxLevelWidth
moveDelayTicks == 4
minStepThreshold == 100
moveStep == 10
playerStructure == 10

(* Bounds of the model *)

MaxDamage == 4
MaxRange == 2
MaxTicks == 2
MaxPoints == 3

-----------------------------------------------------------------------------
(* Actors, names, weapons *)

Player == <<"Player", 0>>
Enemy(i) == <<"Enemy", i>>
\* the enemies followed: the first two entries of main's roster, Mech A and Mech B
Enemies == {Enemy(0), Enemy(1)}
Actors == {Player} \cup Enemies

\* typed nil *Mech wrapped in a weapon.Target interface, and the nil interface
NilMech == <<"nil *Mech", 0>>
NilTarget == <<"nil", 0>>

configLetters == <<"A", "B", "C", "D", "E", "F", "G", "H">>

enemyMechConfigs(i) == <<"M", "e", "c", "h", " ", configLetters[(i % 8) + 1]>>

Name(a) ==
    IF a = Player THEN <<"P", "l", "a", "y", "e", "r">>
    ELSE enemyMechConfigs(a[2])

\* strings.HasSuffix
HasSuffix(s, suffix) ==
    /\ Len(suffix) <= Len(s)
    /\ SubSeq(s, Len(s) - Len(suffix) + 1, Len(s)) = suffix

\* main: player.SetEnemyList(enemyMechs), in generation order
roster == <<Enemy(0), Enemy(1)>>

\* weapon.Create
Create(maxRange, damage, name, hitRate) ==
    [maxRange |-> maxRange, damage |-> damage, name |-> name, hitRate |-> hitRate,
     level |-> FALSE]

\* Weapon.SetLevel: the level the weapon puts its bullets in
SetLevel(weapon) == [weapon EXCEPT !.level = TRUE]

Damages == {MaxDamage}
HitRates == {0, 10}
Draws == {0, 9}
WeaponSet == {SetLevel(Create(MaxRange, MaxDamage, "w", h)) : h \in HitRates}

\* Mech.weapons after main's AddWeapon calls
weapons(a) ==
    IF a = Player
    THEN <<SetLevel(Create(MaxRange, MaxDamage, "long", 10)),
           SetLevel(Create(1, MaxDamage, "short", 5))>>
    ELSE <<SetLevel(Create(1, MaxDamage, "short", 5))>>

-----------------------------------------------------------------------------
(* The effects of combat: the actors' structure, the notifier's messages,  *)
(* the RemoveEntity requests and the bullets added to the level.           *)

World(s) == [structure |-> s, msgs |-> <<>>, removed |-> <<>>, bullets |-> 0, ents |-> entities]

\* an entry of level.Entities: the Go type that was registered and the actor it
\* wraps, or a fixed obstacle and its cell
Registered(kind, a) == [kind |-> kind, of |-> a, cell |-> <<0, 0>>]
Static(cell) == [kind |-> "Static", of |-> <<"none", 0>>, cell |-> cell]

\* IsDestroyed with a strict comparison
IsDestroyedBelowZero(s, a) == s[a] < 0

\* Mech.IsDestroyed
IsDestroyed(s, a) == s[a] <= 0

\* tl.BaseLevel.RemoveEntity: drops the entry equal to the argument
RemoveEntity(ents, d) == ents \ {d}

\* Hit that stops structure at 0
HitClamped(w, t, damage) ==
    IF w.structure[t] <= 0 THEN w
    ELSE LET s2 == IF w.structure[t] - damage < 0 THEN 0 ELSE w.structure[t] - damage
         IN [w EXCEPT !.structure[t] = s2,
                      !.msgs = Append(@, <<Name(t), "takes", damage>>)]

\* Hit without the early return for a destroyed mech
HitUnguarded(w, t, damage) ==
    [w EXCEPT !.structure[t] = @ - damage,
              !.msgs = Append(@, <<Name(t), "takes", damage>>)]

\* Hit that reports the destruction again on every hit of a wreck
HitReannounce(w, t, damage) ==
    IF w.structure[t] <= 0
    THEN [w EXCEPT !.msgs = Append(@, <<Name(t), "has been destroyed">>),
                   !.removed = Append(@, t)]
    ELSE LET s2 == w.structure[t] - damage
             w1 == [w EXCEPT !.structure[t] = s2,
                             !.msgs = Append(@, <<Name(t), "takes", damage>>)]
         IN IF s2 <= 0
            THEN [w1 EXCEPT !.msgs = Append(@, <<Name(t), "has been destroyed">>),
                            !.removed = Append(@, t)]
            ELSE w1

\* Mech.Hit
Hit(w, t, damage) ==
    IF w.structure[t] <= 0 THEN w
    ELSE LET s2 == w.structure[t] - damage
             w1 == [w EXCEPT !.structure[t] = s2,
                             !.msgs = Append(@, <<Name(t), "takes", damage>>)]
         IN IF s2 <= 0
            THEN [w1 EXCEPT !.msgs = Append(@, <<Name(t), "has been destroyed">>),
                            !.removed = Append(@, t),
                            !.ents = RemoveEntity(@, Registered("Mech", t))]
            ELSE w1

\* Fire without the range check
WeaponFireAnyRange(w, weapon, rangeToTarget, target, chance) ==
    IF chance <= weapon.hitRate
    THEN [world |-> Hit([w EXCEPT !.bullets = @ + 1], target, weapon.damage), ret |-> TRUE]
    ELSE [world |-> [w EXCEPT !.bullets = @ + 1], ret |-> FALSE]

\* Fire that hits only when the draw is strictly below the hit rate
WeaponFireStrictChance(w, weapon, rangeToTarget, target, chance) ==
    IF rangeToTarget <= weapon.maxRange /\ chance < weapon.hitRate
    THEN [world |-> Hit([w EXCEPT !.bullets = @ + 1], target, weapon.damage), ret |-> TRUE]
    ELSE [world |-> IF rangeToTarget <= weapon.maxRange
                    THEN [w EXCEPT !.bullets = @ + 1] ELSE w,
          ret |-> FALSE]

\* Fire that sends a bullet off only when it hits
WeaponFireBulletOnHit(w, weapon, rangeToTarget, target, chance) ==
    IF rangeToTarget <= weapon.maxRange /\ chance <= weapon.hitRate
    THEN [world |-> Hit(IF weapon.level THEN [w EXCEPT !.bullets = @ + 1] ELSE w,
                        target, weapon.damage),
          ret |-> TRUE]
    ELSE [world |-> w, ret |-> FALSE]

\* Weapon.Fire: the world after the shot and the returned flag
WeaponFire(w, weapon, rangeToTarget, target, chance) ==
    IF rangeToTarget <= weapon.maxRange
    THEN LET w1 == IF weapon.level THEN [w EXCEPT !.bullets = @ + 1] ELSE w
         IN IF chance <= weapon.hitRate
            THEN [world |-> Hit(w1, target, weapon.damage), ret |-> TRUE]
            ELSE [world |-> w1, ret |-> FALSE]
    ELSE [world |-> w, ret |-> FALSE]

\* Mech.Fire that reports a miss only for a weapon that reached the target
RECURSIVE MechFireFromInReach(_, _, _, _, _, _, _)
MechFireFromInReach(w, ws, i, rangeToTarget, target, chances, rets) ==
    IF i > Len(ws) THEN [world |-> w, rets |-> rets]
    ELSE LET r == WeaponFire(w, ws[i], rangeToTarget, target, chances[i])
             w1 == IF r.ret = FALSE /\ rangeToTarget <= ws[i].maxRange
                   THEN [r.world EXCEPT !.msgs = Append(@, <<Name(target), "Missed">>)]
                   ELSE r.world
         IN MechFireFromInReach(w1, ws, i + 1, rangeToTarget, target, chances,
                                Append(rets, r.ret))

\* Mech.Fire: every weapon of the loadout in order; rets collects the flags.
\* A message is the tuple of its parts, the mech it is about first.
RECURSIVE MechFireFrom(_, _, _, _, _, _, _)
MechFireFrom(w, ws, i, rangeToTarget, target, chances, rets) ==
    IF i > Len(ws) THEN [world |-> w, rets |-> rets]
    ELSE LET r == WeaponFire(w, ws[i], rangeToTarget, target, chances[i])
             w1 == IF r.ret = FALSE
                   THEN [r.world EXCEPT !.msgs = Append(@, <<Name(target), "Missed">>)]
                   ELSE r.world
         IN MechFireFrom(w1, ws, i + 1, rangeToTarget, target, chances, Append(rets, r.ret))

\* Fire that puts the remaining weapons down once the first has destroyed the target
MechFireStopOnKill(w, m, rangeToTarget, target, chances) ==
    LET first == MechFireFrom(w, SubSeq(weapons(m), 1, 1), 1, rangeToTarget, target,
                              chances, <<>>)
    IN IF IsDestroyed(first.world.structure, target) THEN first
       ELSE MechFireFrom(w, weapons(m), 1, rangeToTarget, target, chances, <<>>)

MechFire(w, m, rangeToTarget, target, chances) ==
    MechFireFrom(w, weapons(m), 1, rangeToTarget, target, chances, <<>>)

Abs(n) == IF n < 0 THEN -n ELSE n

\* distance as the larger of the two axis offsets
CalculateDistanceChebyshev(x1, y1, x2, y2) ==
    IF Abs(x2 - x1) > Abs(y2 - y1) THEN Abs(x2 - x1) ELSE Abs(y2 - y1)

\* util.CalculateDistance
CalculateDistance(x1, y1, x2, y2) == Abs(x2 - x1) + Abs(y2 - y1)

\* Mech.attack of a mech whose prevX, prevY are px, py; panicked is the nil
\* dereference in target.IsDestroyed()
attack(w, m, px, py, target, chances) ==
    IF target = NilTarget
    THEN [world |-> w, rets |-> <<>>, range |-> -1, panicked |-> FALSE]
    ELSE IF target = NilMech
    THEN [world |-> w, rets |-> <<>>, range |-> -1, panicked |-> TRUE]
    ELSE IF IsDestroyed(w.structure, target)
    THEN [world |-> w, rets |-> <<>>, range |-> -1, panicked |-> FALSE]
    ELSE LET distance == CalculateDistance(px, py, pos[target][1], pos[target][2])
             f == MechFire(w, m, distance, target, chances)
         IN [world |-> f.world, rets |-> f.rets, range |-> distance, panicked |-> FALSE]

\* PlayerMech.getTargetEnemy: the first roster entry whose name ends with name
RECURSIVE getTargetEnemyFrom(_, _)
getTargetEnemyFrom(i, name) ==
    IF i > Len(roster) THEN NilMech
    ELSE IF HasSuffix(Name(roster[i]), name) THEN roster[i]
    ELSE getTargetEnemyFrom(i + 1, name)

\* target resolution that takes the head of the roster whatever its name
getTargetEnemyHead(name) ==
    IF Len(roster) = 0 THEN NilMech ELSE roster[1]

\* target resolution that falls back on the player's own mech
getTargetEnemySelf(name) ==
    IF getTargetEnemyFrom(1, name) = NilMech THEN Player ELSE getTargetEnemyFrom(1, name)

getTargetEnemy(name) == getTargetEnemyFrom(1, name)

-----------------------------------------------------------------------------
(* Bounds and collision validation *)

\* tl.Physical.Position of an entry of level.Entities
EntityPosition(e) == IF e.kind = "Static" THEN e.cell ELSE pos[e.of]

\* isValidMove without the check of the game boundaries
isValidMoveUnbounded(m, newX, newY) ==
    ~ \E entity \in entities :
         /\ entity # Registered("Entity", m)
         /\ EntityPosition(entity) = <<newX, newY>>

\* Mech.isValidMove. An entry is skipped as "self" only when it is the mech's
\* own *tl.Entity; every entry is tl.Physical.
isValidMove(m, newX, newY) ==
    IF \/ newX < minCoordinate \/ newX > maxLevelWidth
       \/ newY < minCoordinate \/ newY > maxLevelHeight
    THEN FALSE
    ELSE ~ \E entity \in entities :
              /\ entity # Registered("Entity", m)
              /\ EntityPosition(entity) = <<newX, newY>>

-----------------------------------------------------------------------------
(* Movement strategies *)

Impls == {"strategy.go", "mech.go"}

Sign(n) == IF n < 0 THEN -1 ELSE IF n > 0 THEN 1 ELSE 0

\* int(math.Round(v)) of an accumulator: nearest cell count, half away from zero
RoundCells(v) == Sign(v) * ((Abs(v) + (minStepThreshold \div 2)) \div minStepThreshold)

\* the integer conversion shared by accumulateSteps and getIntegerSteps
IntegerStep(v) == IF Abs(v) >= minStepThreshold THEN RoundCells(v) ELSE 0

\* clampToGameBounds
clampToGameBounds(val, min, max) ==
    IF val < min THEN min ELSE IF val > max THEN max ELSE val

\* the position NextMove returns for displacement (dx, dy)
Moved(x, y, dx, dy) ==
    IF impl = "mech.go"
    THEN <<clampToGameBounds(x + dx, minCoordinate, maxLevelWidth),
           clampToGameBounds(y + dy, minCoordinate, maxLevelHeight)>>
    ELSE <<x + dx, y + dy>>

\* NewRandomWalkStrategy: direction 0, whose per-call step is (moveStep, 0)
NewRandomWalkStrategy ==
    [kind |-> "RandomWalk", dir |-> <<moveStep, 0>>, stepX |-> 0, stepY |-> 0,
     points |-> <<>>, currPoint |-> 0, targetX |-> 0, targetY |-> 0]

\* RandomWalkStrategy.updateDirection: reroll is rng.Float64() < 0.1 and d the
\* per-call step (cos, sin) * moveStep of the angle drawn
updateDirection(s, reroll, d) ==
    IF (s.stepX = 0 /\ s.stepY = 0) \/ reroll
    THEN [s EXCEPT !.dir = d, !.stepX = d[1], !.stepY = d[2]]
    ELSE s

\* accumulateSteps that leaves the emitted cells in the accumulators
accumulateStepsKeep(s) ==
    LET ax == s.stepX + s.dir[1]
        ay == s.stepY + s.dir[2]
    IN [s |-> [s EXCEPT !.stepX = ax, !.stepY = ay],
        dx |-> IntegerStep(ax), dy |-> IntegerStep(ay)]

\* accumulateSteps: add the per-call step, take out whole cells
accumulateSteps(s) ==
    LET ax == s.stepX + s.dir[1]
        ay == s.stepY + s.dir[2]
        dx == IntegerStep(ax)
        dy == IntegerStep(ay)
    IN [s |-> [s EXCEPT !.stepX = ax - dx * minStepThreshold,
                        !.stepY = ay - dy * minStepThreshold],
        dx |-> dx, dy |-> dy]

\* RandomWalkStrategy.NextMove: updateDirection, accumulateSteps, new position
RandomWalkNextMove(s, currentX, currentY, reroll, d) ==
    CHOOSE r \in {[s |-> a.s, to |-> Moved(currentX, currentY, a.dx, a.dy)] :
                    a \in {accumulateSteps(u) : u \in {updateDirection(s, reroll, d)}}} : TRUE

\* no strategy: a nil interface, a returned error or a panic
NoStrategy(why) ==
    [kind |-> why, dir |-> <<0, 0>>, stepX |-> 0, stepY |-> 0,
     points |-> <<>>, currPoint |-> 0, targetX |-> 0, targetY |-> 0]

\* validatePoint
validatePoint(x, y) ==
    /\ x >= minCoordinate /\ x <= maxLevelWidth
    /\ y >= minCoordinate /\ y <= maxLevelHeight

\* NewPatrolStrategy: a strategy, or the way the call failed
NewPatrolStrategy(points) ==
    IF Len(points) < 2 \/ \E i \in 1..Len(points) : ~validatePoint(points[i][1], points[i][2])
    THEN NoStrategy(IF impl = "mech.go" THEN "error" ELSE "panic")
    ELSE [kind |-> "Patrol", dir |-> <<0, 0>>, stepX |-> 0, stepY |-> 0,
          points |-> points, currPoint |-> 0,
          targetX |-> points[1][1], targetY |-> points[1][2]]

\* updateTarget that moves the index on and keeps the old target
updateTargetStale(s, currentX, currentY) ==
    IF currentX = s.targetX /\ currentY = s.targetY
    THEN [s EXCEPT !.currPoint = (s.currPoint + 1) % Len(s.points)]
    ELSE s

\* updateTarget that counts on past the last waypoint
updateTargetNoWrap(s, currentX, currentY) ==
    IF currentX = s.targetX /\ currentY = s.targetY
    THEN LET n == (s.currPoint + 1) % Len(s.points)
         IN [s EXCEPT !.currPoint = s.currPoint + 1,
                      !.targetX = s.points[n + 1][1],
                      !.targetY = s.points[n + 1][2]]
    ELSE s

\* updateTarget that takes the waypoint as reached from one cell away
updateTargetNear(s, currentX, currentY) ==
    IF Abs(currentX - s.targetX) <= 1 /\ Abs(currentY - s.targetY) <= 1
    THEN LET n == (s.currPoint + 1) % Len(s.points)
         IN [s EXCEPT !.currPoint = n,
                      !.targetX = s.points[n + 1][1],
                      !.targetY = s.points[n + 1][2]]
    ELSE s

\* PatrolStrategy.updateTarget, first half: next waypoint once the target is reached
updateTarget(s, currentX, currentY) ==
    IF currentX = s.targetX /\ currentY = s.targetY
    THEN LET n == (s.currPoint + 1) % Len(s.points)
         IN [s EXCEPT !.currPoint = n,
                      !.targetX = s.points[n + 1][1],
                      !.targetY = s.points[n + 1][2]]
    ELSE s

\* PatrolStrategy.normalizeDirection times moveStep (strategy.go): divide by
\* the larger absolute component
normalizeDirection(dx, dy) ==
    IF dx = 0 /\ dy = 0 THEN <<0, 0>>
    ELSE LET m == IF Abs(dx) > Abs(dy) THEN Abs(dx) ELSE Abs(dy)
         IN <<Sign(dx) * ((moveStep * Abs(dx)) \div m),
              Sign(dy) * ((moveStep * Abs(dy)) \div m)>>

\* moveStep * |a| / sqrt(a^2 + b^2), rounded down to a sub-cell unit
Along(a, b) ==
    CHOOSE c \in 0..moveStep :
        /\ c * c * (a * a + b * b) <= moveStep * moveStep * a * a
        /\ (c + 1) * (c + 1) * (a * a + b * b) > moveStep * moveStep * a * a

\* (cos, sin) of math.Atan2(dy, dx) times moveStep (mech.go); Atan2(0, 0) = 0
atan2Direction(dx, dy) ==
    IF dx = 0 /\ dy = 0 THEN <<moveStep, 0>>
    ELSE <<Sign(dx) * Along(dx, dy), Sign(dy) * Along(dy, dx)>>

\* the per-call step toward the target: the end of updateTarget in mech.go,
\* the start of calculateSteps in strategy.go
headForTarget(s, currentX, currentY) ==
    LET dx == s.targetX - currentX
        dy == s.targetY - currentY
    IN [s EXCEPT !.dir = IF impl = "mech.go" THEN atan2Direction(dx, dy)
                         ELSE normalizeDirection(dx, dy)]

\* PatrolStrategy.NextMove: updateTarget, the step toward the target,
\* accumulation, new position
PatrolNextMove(s, currentX, currentY) ==
    CHOOSE r \in {[s |-> a.s, to |-> Moved(currentX, currentY, a.dx, a.dy)] :
                    a \in {accumulateSteps(u) :
                             u \in {headForTarget(t, currentX, currentY) :
                                      t \in {updateTarget(s, currentX, currentY)}}}} : TRUE

\* Strategy.NextMove
NextMove(s, currentX, currentY, reroll, d) ==
    IF s.kind = "Patrol" THEN PatrolNextMove(s, currentX, currentY)
    ELSE RandomWalkNextMove(s, currentX, currentY, reroll, d)

-----------------------------------------------------------------------------
(* Enemy generation *)

\* package main's constants
levelWidth == 60
levelHeight == 40
buildingMargin == 2
buildingSize == 4
\* the inner loop of GenerateEnemyMechs tries this many positions
maxAttempts == 10

\* main.isPointInBounds: package main counts its coordinates from 0
isPointInBounds(x, y) ==
    /\ x >= 0 /\ x <= levelWidth - 1
    /\ y >= 0 /\ y <= levelHeight - 1

\* main.hasCollision
hasCollision(x, y) == \E entity \in entities : EntityPosition(entity) = <<x, y>>

\* the patrol patterns of getValidPatrolPoints: dx1, dy1, dx2, dy2
patterns ==
    <<<<buildingMargin, 1, buildingMargin + buildingSize, 1>>,
      <<buildingMargin, 0, buildingMargin, buildingSize>>,
      <<buildingMargin, 1, buildingMargin + (buildingSize \div 2), buildingSize \div 2>>>>

\* getValidPatrolPoints: the points of the first pattern that is in bounds
\* and free, the empty list for the error
RECURSIVE getValidPatrolPointsFrom(_, _, _)
getValidPatrolPointsFrom(k, x, y) ==
    IF k > Len(patterns) THEN <<>>
    ELSE LET p == patterns[k]
             point1 == <<x + p[1], y + p[2]>>
             point2 == <<x + p[3], y + p[4]>>
         IN IF /\ isPointInBounds(point1[1], point1[2])
               /\ isPointInBounds(point2[1], point2[2])
               /\ ~hasCollision(point1[1], point1[2])
               /\ ~hasCollision(point2[1], point2[2])
            THEN <<point1, point2>>
            ELSE getValidPatrolPointsFrom(k + 1, x, y)

getValidPatrolPoints(x, y) == getValidPatrolPointsFrom(1, x, y)

\* the fixed routes of the earlier GenerateEnemyMechs
patrolAreas ==
    <<<<<<-15, -15>>, <<15, -15>>, <<15, 15>>, <<-15, 15>>>>,
      <<<<-8, -8>>, <<8, -8>>, <<8, 8>>, <<-8, 8>>>>,
      <<<<-5, 0>>, <<5, 0>>>>,
      <<<<0, -5>>, <<0, 5>>>>>>

\* NewEnemyMech over NewMech: the mech starts with structure = maxStructure
NewEnemyMech(maxStructure, x, y, strategy) ==
    [strategy |-> strategy, at |-> <<x, y>>, structure |-> maxStructure,
     maxStructure |-> maxStructure]

\* the locals of GenerateEnemyMechs(number): enemies made so far, the
\* strategy and position found for the next one, whether the inner loop
\* was left by break
Generation(number) ==
    [number |-> number, i |-> 0, attempts |-> 0, strategy |-> NoStrategy("nil"),
     final |-> <<0, 0>>, broke |-> FALSE, enemyMechs |-> <<>>, returned |-> FALSE]

\* GenerateEnemyMechs has not been called
NoGeneration == Generation(0)

\* an attempt that gives up when the last position has no route
GenerateAttemptAbort(x, y) ==
    LET patrolPoints == getValidPatrolPoints(x, y)
    IN /\ impl = "mech.go"
       /\ ~fault /\ ~gen.returned /\ gen.i < gen.number
       /\ ~gen.broke /\ gen.attempts < maxAttempts
       /\ IF patrolPoints = <<>>
          THEN /\ gen' = [gen EXCEPT !.attempts = @ + 1]
               /\ fault' = (gen.attempts = maxAttempts - 1)
          ELSE /\ gen' = [gen EXCEPT !.strategy = NewPatrolStrategy(patrolPoints),
                                     !.final = <<x, y>>, !.broke = TRUE]
               /\ fault' = (NewPatrolStrategy(patrolPoints).kind # "Patrol")
       /\ UNCHANGED <<impl, structure, pos, prev, tickCount, strat, entities, last,
                      pts, ps, cur, ticks, age, rejected, calls>>

\* main.go GenerateEnemyMechs: one pass of the inner loop, at the random
\* position (x, y)
GenerateAttempt(x, y) ==
    LET patrolPoints == getValidPatrolPoints(x, y)
        patrolStrategy == NewPatrolStrategy(patrolPoints)
    IN /\ impl = "mech.go"
       /\ ~fault /\ ~gen.returned /\ gen.i < gen.number
       /\ ~gen.broke /\ gen.attempts < maxAttempts
       /\ IF patrolPoints = <<>>
          THEN IF gen.attempts = maxAttempts - 1
               THEN gen' = [gen EXCEPT !.attempts = @ + 1,
                                       !.strategy = NewRandomWalkStrategy,
                                       !.final = <<x, y>>]
               ELSE gen' = [gen EXCEPT !.attempts = @ + 1]
          ELSE gen' = [gen EXCEPT !.strategy = IF patrolStrategy.kind = "Patrol"
                                               THEN patrolStrategy
                                               ELSE NewRandomWalkStrategy,
                                  !.final = <<x, y>>,
                                  !.broke = TRUE]
       /\ UNCHANGED <<impl, structure, pos, prev, tickCount, strat, entities, fault, last,
                      pts, ps, cur, ticks, age, rejected, calls>>

\* main.go GenerateEnemyMechs after the inner loop: the nil check, NewEnemyMech
\* and the store; after the last enemy the slice is returned
GeneratePlace ==
    LET strategy == IF gen.strategy.kind = "nil" THEN NewRandomWalkStrategy
                    ELSE gen.strategy
        m == NewEnemyMech(gen.i, gen.final[1], gen.final[2], strategy)
    IN /\ impl = "mech.go"
       /\ ~fault /\ ~gen.returned /\ gen.i < gen.number
       /\ gen.broke \/ gen.attempts = maxAttempts
       /\ gen' = [Generation(gen.number)
                    EXCEPT !.i = gen.i + 1,
                           !.enemyMechs = Append(gen.enemyMechs, m),
                           !.returned = (gen.i + 1 = gen.number)]
       /\ UNCHANGED <<impl, structure, pos, prev, tickCount, strat, entities, fault, last,
                      pts, ps, cur, ticks, age, rejected, calls>>

\* the earlier GenerateEnemyMechs: one pass of its loop, which counts from 1,
\* at the random position (x, y); NewPatrolStrategy of that revision panics
GenerateFromAreas(x, y) ==
    LET i == gen.i + 1
        strategy == IF i % 2 = 0 THEN NewRandomWalkStrategy
                    ELSE NewPatrolStrategy(patrolAreas[(i % Len(patrolAreas)) + 1])
        m == NewEnemyMech(i, x, y, strategy)
    IN /\ impl = "strategy.go"
       /\ ~fault /\ ~gen.returned /\ gen.i < gen.number
       /\ IF strategy.kind = "panic"
          THEN fault' = TRUE /\ UNCHANGED gen
          ELSE /\ gen' = [gen EXCEPT !.i = i,
                                     !.enemyMechs = Append(@, m),
                                     !.returned = (i = gen.number)]
               /\ UNCHANGED fault
       /\ UNCHANGED <<impl, structure, pos, prev, tickCount, strat, entities, last,
                      pts, ps, cur, ticks, age, rejected, calls>>

-----------------------------------------------------------------------------
(* Operations *)

NoCell == <<0, 0>>
NoActor == <<"none", 0>>
\* no move of the enemy is waiting for its retry
NoRejection == [age |-> -1, at |-> NoCell]

\* no execution context is inside NextMove
NoCalls == <<>>

\* what the last operation was, what it was given and what came back
Last(op, who, w, rets) ==
    [op |-> op, who |-> who, rets |-> rets, msgs |-> w.msgs, removed |-> w.removed,
     bullets |-> w.bullets, range |-> -1, cand |-> NoCell, valid |-> FALSE,
     called |-> FALSE]

\* a call of Mech.Hit
HitOp(a, damage) ==
    LET w == Hit(World(structure), a, damage)
    IN /\ ~fault
       /\ structure' = w.structure
       /\ entities' = w.ents
       /\ last' = Last("Hit", a, w, <<>>)
       /\ UNCHANGED <<impl, pos, prev, tickCount, strat, fault, pts, ps, cur, ticks, age, gen, rejected, calls>>

\* a call of Weapon.Fire
WeaponFireOp(weapon, rangeToTarget, target, chance) ==
    LET f == WeaponFire(World(structure), weapon, rangeToTarget, target, chance)
    IN /\ ~fault
       /\ structure' = f.world.structure
       /\ entities' = f.world.ents
       /\ last' = [Last("Weapon.Fire", target, f.world, <<f.ret>>) EXCEPT !.range = rangeToTarget]
       /\ UNCHANGED <<impl, pos, prev, tickCount, strat, fault, pts, ps, cur, ticks, age, gen, rejected, calls>>

\* a call of isValidMove that caches the mover's position as Tick does
ValidMoveCallCaching(m, newX, newY) ==
    /\ ~fault
    /\ prev' = [prev EXCEPT ![m] = pos[m]]
    /\ last' = [Last("isValidMove", m, World(structure), <<isValidMove(m, newX, newY)>>)
                   EXCEPT !.cand = <<newX, newY>>, !.valid = isValidMove(m, newX, newY)]
    /\ UNCHANGED <<impl, structure, pos, tickCount, strat, entities, fault, pts, ps, cur,
                   ticks, age, gen, rejected, calls>>

\* a call of Mech.isValidMove(newX, newY): it assigns nothing and returns
\* last.valid
ValidMoveCall(m, newX, newY) ==
    /\ ~fault
    /\ last' = [Last("isValidMove", m, World(structure), <<isValidMove(m, newX, newY)>>)
                   EXCEPT !.cand = <<newX, newY>>, !.valid = isValidMove(m, newX, newY)]
    /\ UNCHANGED <<impl, structure, pos, prev, tickCount, strat, entities, fault, pts, ps,
                   cur, ticks, age, gen, rejected, calls>>

\* Mech.Collide(collision): the level calls it for an entry that overlaps the
\* mech; the two type assertions pass for a *tl.Rectangle and for a *Mech
\* only. last.cand is the cell the mech stood on.
Collide(m, collision) ==
    /\ ~fault
    /\ collision \in entities
    /\ collision.of # m
    /\ EntityPosition(collision) = pos[m]
    /\ pos' = IF collision.kind \in {"Rectangle", "Mech"}
              THEN [pos EXCEPT ![m] = prev[m]]
              ELSE pos
    /\ last' = [Last("Collide", m, World(structure), <<>>) EXCEPT !.cand = pos[m]]
    /\ UNCHANGED <<impl, structure, prev, tickCount, strat, entities, fault, pts, ps,
                   cur, ticks, age, gen, rejected, calls>>

\* the letter PlayerMech.Tick hands to attack for event.Ch; a case with an empty
\* body does nothing, Go does not fall through
attackLetter(ch) ==
    CASE ch = "a" -> "A" [] ch = "b" -> "B" [] ch = "c" -> "C" [] ch = "d" -> "D"
      [] ch = "e" -> "E" [] ch = "f" -> "F" [] ch = "g" -> "G" [] ch = "h" -> "H"
      [] OTHER -> ""

\* the offset PlayerMech.Tick applies for event.Key
arrowOffset(key) ==
    CASE key = "ArrowRight" -> <<1, 0>> [] key = "ArrowLeft" -> <<-1, 0>>
      [] key = "ArrowUp" -> <<0, -1>> [] key = "ArrowDown" -> <<0, 1>>
      [] OTHER -> <<0, 0>>

Chars == {"a", "A", "b", "h"}
Arrows == {"ArrowRight", "ArrowLeft", "ArrowUp", "ArrowDown"}

\* the cells the player is followed over
PlayerWindow == {<<59, 41>>, <<59, 40>>, <<58, 41>>}

\* PlayerMech.Tick on a key event carrying a character
PlayerCharTick(ch, chances) ==
    LET name == attackLetter(ch)
        target == IF name = "" THEN NilTarget ELSE getTargetEnemy(<<name>>)
        \* attack reads prevX, prevY as the handler has just set them
        r == IF name = ""
             THEN [world |-> World(structure), rets |-> <<>>, range |-> -1, panicked |-> FALSE]
             ELSE attack(World(structure), Player, pos[Player][1], pos[Player][2], target, chances)
    IN /\ ~fault
       /\ prev' = [prev EXCEPT ![Player] = pos[Player]]
       /\ structure' = r.world.structure
       /\ entities' = r.world.ents
       /\ fault' = r.panicked
       /\ last' = [Last(IF name = "" THEN "Player.Key" ELSE "Player.attack", target,
                        r.world, r.rets)
                      EXCEPT !.range = r.range]
       /\ UNCHANGED <<impl, pos, tickCount, strat, pts, ps, cur, ticks, age, gen, rejected, calls>>

\* arrow key handling that asks isValidMove before it moves
PlayerArrowTickValidated(key) ==
    LET to == <<pos[Player][1] + arrowOffset(key)[1], pos[Player][2] + arrowOffset(key)[2]>>
    IN /\ ~fault
       /\ to \in PlayerWindow
       /\ prev' = [prev EXCEPT ![Player] = pos[Player]]
       /\ pos' = IF isValidMove(Player, to[1], to[2]) THEN [pos EXCEPT ![Player] = to] ELSE pos
       /\ last' = [Last("Player.Move", Player, World(structure), <<>>) EXCEPT !.cand = to]
       /\ UNCHANGED <<impl, structure, tickCount, strat, entities, fault, pts, ps, cur, ticks, age, gen, rejected, calls>>

\* PlayerMech.Tick on a key event carrying an arrow key
PlayerArrowTick(key) ==
    LET to == <<pos[Player][1] + arrowOffset(key)[1], pos[Player][2] + arrowOffset(key)[2]>>
    IN /\ ~fault
       /\ to \in PlayerWindow
       /\ prev' = [prev EXCEPT ![Player] = pos[Player]]
       /\ pos' = [pos EXCEPT ![Player] = to]
       /\ last' = [Last("Player.Move", Player, World(structure), <<>>) EXCEPT !.cand = to]
       /\ UNCHANGED <<impl, structure, tickCount, strat, entities, fault, pts, ps, cur, ticks, age, gen, rejected, calls>>

Dirs == {<<moveStep, 0>>, <<0, -moveStep>>,
         <<-((moveStep * 4) \div 5), (moveStep * 3) \div 5>>}

\* Tick that commits the candidate without asking isValidMove
EnemyTickUnvalidated(e, reroll, d) ==
    /\ ~fault
    /\ IF IsDestroyed(structure, e)
       THEN /\ prev' = [prev EXCEPT ![e] = pos[e]]
            /\ last' = Last("Enemy.Tick", e, World(structure), <<>>)
            /\ UNCHANGED <<tickCount, strat, pos, ticks, age, rejected, calls>>
       ELSE IF tickCount[e] + 1 >= moveDelayTicks
       THEN LET n == NextMove(strat[e], pos[e][1], pos[e][2], reroll, d)
            IN /\ ticks < MaxTicks
               /\ ticks' = ticks + 1
               /\ age' = [age EXCEPT ![e] = @ + 1]
               /\ tickCount' = [tickCount EXCEPT ![e] = 0]
               /\ rejected' = [rejected EXCEPT ![e] =
                                  IF isValidMove(e, n.to[1], n.to[2]) THEN NoRejection
                                  ELSE [age |-> age[e] + 1, at |-> pos[e]]]
               /\ strat' = [strat EXCEPT ![e] = n.s]
               /\ prev' = [prev EXCEPT ![e] = pos[e]]
               /\ pos' = [pos EXCEPT ![e] = n.to]
               /\ last' = [Last("Enemy.Tick", e, World(structure), <<>>)
                              EXCEPT !.cand = n.to, !.valid = isValidMove(e, n.to[1], n.to[2]),
                                     !.called = TRUE]
       ELSE /\ ticks < MaxTicks
            /\ ticks' = ticks + 1
            /\ age' = [age EXCEPT ![e] = @ + 1]
            /\ tickCount' = [tickCount EXCEPT ![e] = @ + 1]
            /\ prev' = [prev EXCEPT ![e] = pos[e]]
            /\ last' = Last("Enemy.Tick", e, World(structure), <<>>)
            /\ UNCHANGED <<strat, pos, rejected, calls>>
    /\ UNCHANGED <<impl, structure, entities, fault, pts, ps, cur, gen, calls>>

\* Tick that asks the strategy one tick late
EnemyTickLate(e, reroll, d) ==
    /\ ~fault
    /\ IF IsDestroyed(structure, e)
       THEN /\ prev' = [prev EXCEPT ![e] = pos[e]]
            /\ last' = Last("Enemy.Tick", e, World(structure), <<>>)
            /\ UNCHANGED <<tickCount, strat, pos, ticks, age, rejected, calls>>
       ELSE IF tickCount[e] + 1 > moveDelayTicks
       THEN LET n == NextMove(strat[e], pos[e][1], pos[e][2], reroll, d)
                ok == isValidMove(e, n.to[1], n.to[2])
            IN /\ ticks < MaxTicks
               /\ ticks' = ticks + 1
               /\ age' = [age EXCEPT ![e] = @ + 1]
               /\ tickCount' = [tickCount EXCEPT ![e] = 0]
               /\ rejected' = [rejected EXCEPT ![e] =
                                  IF isValidMove(e, n.to[1], n.to[2]) THEN NoRejection
                                  ELSE [age |-> age[e] + 1, at |-> pos[e]]]
               /\ strat' = [strat EXCEPT ![e] = n.s]
               /\ prev' = [prev EXCEPT ![e] = pos[e]]
               /\ pos' = IF ok THEN [pos EXCEPT ![e] = n.to] ELSE pos
               /\ last' = [Last("Enemy.Tick", e, World(structure), <<>>)
                              EXCEPT !.cand = n.to, !.valid = ok, !.called = TRUE]
       ELSE /\ ticks < MaxTicks
            /\ ticks' = ticks + 1
            /\ age' = [age EXCEPT ![e] = @ + 1]
            /\ tickCount' = [tickCount EXCEPT ![e] = @ + 1]
            /\ prev' = [prev EXCEPT ![e] = pos[e]]
            /\ last' = Last("Enemy.Tick", e, World(structure), <<>>)
            /\ UNCHANGED <<strat, pos, rejected, calls>>
    /\ UNCHANGED <<impl, structure, entities, fault, pts, ps, cur, gen, calls>>

\* Tick that moves a destroyed mech like a live one
EnemyTickUndead(e, reroll, d) ==
    /\ ~fault
    /\ IF tickCount[e] + 1 >= moveDelayTicks
       THEN LET n == NextMove(strat[e], pos[e][1], pos[e][2], reroll, d)
                ok == isValidMove(e, n.to[1], n.to[2])
            IN /\ ticks < MaxTicks
               /\ ticks' = ticks + 1
               /\ age' = [age EXCEPT ![e] = @ + 1]
               /\ tickCount' = [tickCount EXCEPT ![e] = 0]
               /\ rejected' = [rejected EXCEPT ![e] =
                                  IF isValidMove(e, n.to[1], n.to[2]) THEN NoRejection
                                  ELSE [age |-> age[e] + 1, at |-> pos[e]]]
               /\ strat' = [strat EXCEPT ![e] = n.s]
               /\ prev' = [prev EXCEPT ![e] = pos[e]]
               /\ pos' = IF ok THEN [pos EXCEPT ![e] = n.to] ELSE pos
               /\ last' = [Last("Enemy.Tick", e, World(structure), <<>>)
                              EXCEPT !.cand = n.to, !.valid = ok, !.called = TRUE]
       ELSE /\ ticks < MaxTicks
            /\ ticks' = ticks + 1
            /\ age' = [age EXCEPT ![e] = @ + 1]
            /\ tickCount' = [tickCount EXCEPT ![e] = @ + 1]
            /\ prev' = [prev EXCEPT ![e] = pos[e]]
            /\ last' = Last("Enemy.Tick", e, World(structure), <<>>)
            /\ UNCHANGED <<strat, pos, rejected, calls>>
    /\ UNCHANGED <<impl, structure, entities, fault, pts, ps, cur, gen, calls>>

\* Tick that resets the counter only once the move is accepted
EnemyTickResetAfter(e, reroll, d) ==
    /\ ~fault
    /\ IF IsDestroyed(structure, e)
       THEN /\ prev' = [prev EXCEPT ![e] = pos[e]]
            /\ last' = Last("Enemy.Tick", e, World(structure), <<>>)
            /\ UNCHANGED <<tickCount, strat, pos, ticks, age, rejected, calls>>
       ELSE IF tickCount[e] + 1 >= moveDelayTicks
       THEN LET n == NextMove(strat[e], pos[e][1], pos[e][2], reroll, d)
                ok == isValidMove(e, n.to[1], n.to[2])
            IN /\ ticks < MaxTicks
               /\ ticks' = ticks + 1
               /\ age' = [age EXCEPT ![e] = @ + 1]
               /\ tickCount' = [tickCount EXCEPT ![e] = IF ok THEN 0 ELSE @ + 1]
               /\ rejected' = [rejected EXCEPT ![e] =
                                  IF isValidMove(e, n.to[1], n.to[2]) THEN NoRejection
                                  ELSE [age |-> age[e] + 1, at |-> pos[e]]]
               /\ strat' = [strat EXCEPT ![e] = n.s]
               /\ prev' = [prev EXCEPT ![e] = pos[e]]
               /\ pos' = IF ok THEN [pos EXCEPT ![e] = n.to] ELSE pos
               /\ last' = [Last("Enemy.Tick", e, World(structure), <<>>)
                              EXCEPT !.cand = n.to, !.valid = ok, !.called = TRUE]
       ELSE /\ ticks < MaxTicks
            /\ ticks' = ticks + 1
            /\ age' = [age EXCEPT ![e] = @ + 1]
            /\ tickCount' = [tickCount EXCEPT ![e] = @ + 1]
            /\ prev' = [prev EXCEPT ![e] = pos[e]]
            /\ last' = Last("Enemy.Tick", e, World(structure), <<>>)
            /\ UNCHANGED <<strat, pos, rejected, calls>>
    /\ UNCHANGED <<impl, structure, entities, fault, pts, ps, cur, gen, calls>>

\* EnemyMech.Tick
EnemyTick(e, reroll, d) ==
    /\ ~fault
    /\ IF IsDestroyed(structure, e)
       THEN /\ prev' = [prev EXCEPT ![e] = pos[e]]
            /\ last' = Last("Enemy.Tick", e, World(structure), <<>>)
            /\ UNCHANGED <<tickCount, strat, pos, ticks, age, rejected, calls>>
       ELSE IF tickCount[e] + 1 >= moveDelayTicks
       THEN LET n == NextMove(strat[e], pos[e][1], pos[e][2], reroll, d)
                ok == isValidMove(e, n.to[1], n.to[2])
            IN /\ ticks < MaxTicks
               /\ ticks' = ticks + 1
               /\ age' = [age EXCEPT ![e] = @ + 1]
               /\ tickCount' = [tickCount EXCEPT ![e] = 0]
               /\ rejected' = [rejected EXCEPT ![e] =
                                  IF isValidMove(e, n.to[1], n.to[2]) THEN NoRejection
                                  ELSE [age |-> age[e] + 1, at |-> pos[e]]]
               /\ strat' = [strat EXCEPT ![e] = n.s]
               /\ prev' = [prev EXCEPT ![e] = pos[e]]
               /\ pos' = IF ok THEN [pos EXCEPT ![e] = n.to] ELSE pos
               /\ last' = [Last("Enemy.Tick", e, World(structure), <<>>)
                              EXCEPT !.cand = n.to, !.valid = ok, !.called = TRUE]
       ELSE /\ ticks < MaxTicks
            /\ ticks' = ticks + 1
            /\ age' = [age EXCEPT ![e] = @ + 1]
            /\ tickCount' = [tickCount EXCEPT ![e] = @ + 1]
            /\ prev' = [prev EXCEPT ![e] = pos[e]]
            /\ last' = Last("Enemy.Tick", e, World(structure), <<>>)
            /\ UNCHANGED <<strat, pos, rejected, calls>>
    /\ UNCHANGED <<impl, structure, entities, fault, pts, ps, cur, gen, calls>>

\* PlayerMech.Tick on an event that is not a key event
PlayerIdleTick ==
    /\ ~fault
    /\ last.op # "Player.Idle"
    /\ last' = Last("Player.Idle", Player, World(structure), <<>>)
    /\ UNCHANGED <<impl, structure, pos, prev, tickCount, strat, entities, fault,
                   pts, ps, cur, ticks, age, gen, rejected, calls>>

-----------------------------------------------------------------------------
(* The game main builds, some frames in *)

\* The first 39 frames pass without a key event and without a move: every
\* live enemy has made 9 strategy calls and its tick counter stands at 3.
WarmCalls == (minStepThreshold \div moveStep) - 1
WarmTickCount == moveDelayTicks - 1
WarmAge == WarmCalls * moveDelayTicks + WarmTickCount

\* a random walk that re-rolled to step d on its second call, after WarmCalls calls
WarmRandomWalk(d) ==
    [NewRandomWalkStrategy EXCEPT !.dir = d, !.stepX = WarmCalls * d[1],
                                  !.stepY = WarmCalls * d[2]]

\* a patrol standing on its first waypoint and heading east for the second,
\* after WarmCalls calls
WarmPatrol(points) ==
    [NewPatrolStrategy(points) EXCEPT !.currPoint = 1, !.targetX = points[2][1],
                                      !.targetY = points[2][2], !.dir = <<moveStep, 0>>,
                                      !.stepX = WarmCalls * moveStep]

\* main: NewEnemyMech(config.name, i, ...) gives enemy i the structure i
maxStructure(a) == IF a = Player THEN playerStructure ELSE a[2]

\* main: level.AddEntity(enemy) for every *EnemyMech, level.AddEntity(player)
mainEntities ==
    {Registered("EnemyMech", e) : e \in Enemies} \cup {Registered("PlayerMech", Player)}

\* a two-point route from a start cell
Route(c) == <<c, <<c[1] + 1, c[2]>>>>

\* where a live enemy stands and what moves it
Scenarios ==
    {[at |-> <<59, 40>>, s |-> WarmRandomWalk(<<moveStep, 0>>)],
     [at |-> <<60, 39>>, s |-> WarmRandomWalk(<<moveStep, 0>>)],
     [at |-> <<58, 40>>, s |-> WarmPatrol(Route(<<58, 40>>))]}

\* enemy 0 is created with structure 0 and never moves
DeadCell == <<60, 40>>
PlayerStart == <<59, 41>>

NoInput ==
    /\ pts = <<>>
    /\ ps = NoStrategy("nil")
    /\ cur = NoCell

\* the game main builds with the level entries registry, budget ticks short of
\* the end of the frames followed
Begun(registry, budget) ==
    /\ impl \in Impls
    /\ structure = [a \in Actors |-> maxStructure(a)]
    /\ \E sc \in Scenarios :
          /\ pos = [a \in Actors |-> IF a = Player THEN PlayerStart
                                     ELSE IF IsDestroyed(structure, a) THEN DeadCell
                                     ELSE sc.at]
          /\ strat = [e \in Enemies |-> IF IsDestroyed(structure, e)
                                         THEN NewRandomWalkStrategy ELSE sc.s]
    /\ prev = pos
    /\ tickCount = [e \in Enemies |-> IF IsDestroyed(structure, e) THEN 0 ELSE WarmTickCount]
    /\ entities = registry
    /\ fault = FALSE
    /\ last = Last("main", NoActor, World(structure), <<>>)
    /\ ticks = budget
    /\ age = [e \in Enemies |-> IF IsDestroyed(structure, e) THEN 0 ELSE WarmAge]
    /\ gen = NoGeneration
    /\ rejected = [e \in Enemies |-> NoRejection]
    /\ calls = NoCalls
    /\ NoInput

Init == Begun(mainEntities, 0)

\* the ranges Weapon.Fire is called with: the longest reach and one past it
Ranges == {MaxRange, MaxRange + 1}

\* the draws of the weapons of one volley
Volleys == {<<0, 0>>, <<9, 9>>}

Next ==
    \/ \E a \in Actors, d \in Damages : HitOp(a, d)
    \/ \E w \in WeaponSet, r \in Ranges, t \in Actors, u \in Draws :
          WeaponFireOp(w, r, t, u)
    \/ \E ch \in Chars, us \in Volleys : PlayerCharTick(ch, us)
    \/ \E k \in Arrows : PlayerArrowTick(k)
    \/ PlayerIdleTick
    \/ \E e \in Enemies, reroll \in BOOLEAN, d \in Dirs : EnemyTick(e, reroll, d)

Spec == Init /\ [][Next]_vars

-----------------------------------------------------------------------------
(* The game as the game loop runs it: the ticks of the player and of the      *)
(* enemies and the collisions the level reports, nothing else.                *)

NextGame ==
    \/ \E ch \in Chars, us \in Volleys : PlayerCharTick(ch, us)
    \/ \E k \in Arrows : PlayerArrowTick(k)
    \/ PlayerIdleTick
    \/ \E e \in Enemies, reroll \in BOOLEAN, d \in Dirs : EnemyTick(e, reroll, d)
    \/ \E m \in Actors, c \in mainEntities : Collide(m, c)

SpecGame == Init /\ [][NextGame]_vars

-----------------------------------------------------------------------------
(* A patrol strategy on its own: built from a waypoint list, then called      *)
(* again and again with the position it returned.                             *)

\* waypoints around the south-east corner of the play area and beyond it
InCells == {<<58, 40>>, <<60, 40>>, <<59, 39>>, <<60, 39>>}
OutCells == {<<61, 40>>, <<60, 41>>, <<-61, 40>>}

SeqsUpTo(S, n) == UNION {[1..k -> S] : k \in 0..n}

WaypointLists == SeqsUpTo(InCells \cup OutCells, MaxPoints)

\* the game at rest: the specifications of the strategies leave it alone
GameAtRest ==
    /\ structure = [a \in Actors |-> maxStructure(a)]
    /\ pos = [a \in Actors |-> IF a = Player THEN PlayerStart ELSE DeadCell]
    /\ prev = pos
    /\ tickCount = [e \in Enemies |-> 0]
    /\ strat = [e \in Enemies |-> NewRandomWalkStrategy]
    /\ entities = mainEntities
    /\ fault = FALSE
    /\ last = Last("main", NoActor, World(structure), <<>>)
    /\ ticks = 0
    /\ age = [e \in Enemies |-> 0]
    /\ gen = NoGeneration
    /\ rejected = [e \in Enemies |-> NoRejection]

\* the game at rest and no call of NextMove in progress
AtRest == GameAtRest /\ calls = NoCalls

InitPatrol ==
    /\ impl \in Impls
    /\ pts \in WaypointLists
    /\ ps = NoStrategy("nil")
    /\ cur = NoCell
    /\ AtRest

\* a call of NewPatrolStrategy; the patrol then starts on its first waypoint
NewPatrolOp ==
    /\ ps.kind = "nil"
    /\ ps' = NewPatrolStrategy(pts)
    /\ cur' = IF ps'.kind = "Patrol" THEN pts[1] ELSE NoCell
    /\ fault' = (ps'.kind = "panic")
    /\ UNCHANGED <<impl, structure, pos, prev, tickCount, strat, entities, last, pts, ticks, age, gen, rejected, calls>>

\* a call of PatrolStrategy.NextMove with the position the last call returned
PatrolCall ==
    /\ ps.kind = "Patrol"
    /\ \E n \in {PatrolNextMove(ps, cur[1], cur[2])} :
          /\ ps' = n.s
          /\ cur' = n.to
    /\ UNCHANGED <<impl, structure, pos, prev, tickCount, strat, entities, fault, last,
                   pts, ticks, age, gen, rejected, calls>>

NextPatrol == NewPatrolOp \/ PatrolCall

\* the patrol is called again on every eligible tick
SpecPatrol == InitPatrol /\ [][NextPatrol]_vars /\ WF_vars(PatrolCall)

-----------------------------------------------------------------------------
(* The strategies as functions: NextMove called with any position, inside or  *)
(* outside the play area, whatever it returned before.                        *)

\* positions handed to NextMove: inside, on the edge, one and several cells out
WalkInputs == {<<59, 40>>, <<60, 40>>, <<61, 40>>, <<63, 41>>, <<-62, -60>>}
RouteInputs == {<<59, 40>>, <<63, 40>>, <<60, 41>>}

\* routes of the patrols called; the empty list stands for a random walk
MoveRoutes == {<<>>, Route(<<59, 40>>)}

InitMoves ==
    /\ impl \in Impls
    /\ pts \in MoveRoutes
    /\ ps = IF pts = <<>> THEN NewRandomWalkStrategy ELSE NewPatrolStrategy(pts)
    /\ cur = NoCell
    /\ AtRest

\* a call of RandomWalkStrategy.NextMove(x, y); last.cand is what it returned
WalkCall(x, y, reroll, d) ==
    /\ ps.kind = "RandomWalk"
    /\ \E n \in {RandomWalkNextMove(ps, x, y, reroll, d)} :
          /\ ps' = n.s
          /\ last' = [Last("RandomWalk.NextMove", NoActor, World(structure), <<>>)
                         EXCEPT !.cand = n.to, !.called = TRUE]
    /\ cur' = <<x, y>>
    /\ UNCHANGED <<impl, structure, pos, prev, tickCount, strat, entities, fault,
                   pts, ticks, age, gen, rejected, calls>>

\* a call of PatrolStrategy.NextMove(x, y); last.cand is what it returned
RouteCall(x, y) ==
    /\ ps.kind = "Patrol"
    /\ \E n \in {PatrolNextMove(ps, x, y)} :
          /\ ps' = n.s
          /\ last' = [Last("Patrol.NextMove", NoActor, World(structure), <<>>)
                         EXCEPT !.cand = n.to, !.called = TRUE]
    /\ cur' = <<x, y>>
    /\ UNCHANGED <<impl, structure, pos, prev, tickCount, strat, entities, fault,
                   pts, ticks, age, gen, rejected, calls>>

NextMoves ==
    \/ \E c \in WalkInputs, reroll \in BOOLEAN, d \in Dirs : WalkCall(c[1], c[2], reroll, d)
    \/ \E c \in RouteInputs : RouteCall(c[1], c[2])

SpecMoves == InitMoves /\ [][NextMoves]_vars

-----------------------------------------------------------------------------
(* One random walk shared by several execution contexts: each context calls   *)
(* NextMove once. updateDirection and accumulateSteps each hold the mutex for *)
(* their own body; NextMove holds nothing between the two.                    *)

MaxContexts == 2

Contexts == 1..MaxContexts

\* the strategy and the rng draws at the start, and where each context is in
\* its call: the draw its updateDirection took, the position it returned
EnteredCalls(s) ==
    [start |-> s, draws |-> <<>>,
     of |-> [c \in Contexts |->
               [pc |-> "entered", reroll |-> FALSE, d |-> <<0, 0>>, to |-> NoCell]]]

InitContexts ==
    /\ impl \in Impls
    /\ pts = <<>>
    /\ ps \in {NewRandomWalkStrategy} \cup {WarmRandomWalk(d) : d \in Dirs}
    /\ cur = <<59, 40>>
    /\ calls = EnteredCalls(ps)
    /\ GameAtRest

\* NextMove of context c, first statement: s.updateDirection() under the mutex
ContextUpdateDirection(c, reroll, d) ==
    /\ calls # NoCalls
    /\ calls.of[c].pc = "entered"
    /\ ps' = updateDirection(ps, reroll, d)
    /\ calls' = [calls EXCEPT !.draws = Append(@, [reroll |-> reroll, d |-> d]),
                              !.of[c] = [@ EXCEPT !.pc = "updated", !.reroll = reroll,
                                                  !.d = d]]
    /\ UNCHANGED <<impl, structure, pos, prev, tickCount, strat, entities, fault, last,
                   pts, cur, ticks, age, gen, rejected>>

\* NextMove of context c, the rest: s.accumulateSteps() under the mutex, then
\* the position returned
ContextAccumulateSteps(c) ==
    /\ calls # NoCalls
    /\ calls.of[c].pc = "updated"
    /\ \E a \in {accumulateSteps(ps)} :
          /\ ps' = a.s
          /\ calls' = [calls EXCEPT !.of[c] = [@ EXCEPT !.pc = "returned",
                                     !.to = Moved(cur[1], cur[2], a.dx, a.dy)]]
    /\ UNCHANGED <<impl, structure, pos, prev, tickCount, strat, entities, fault, last,
                   pts, cur, ticks, age, gen, rejected>>

NextContexts ==
    \/ \E c \in Contexts, reroll \in BOOLEAN, d \in Dirs : ContextUpdateDirection(c, reroll, d)
    \/ \E c \in Contexts : ContextAccumulateSteps(c)

SpecContexts == InitContexts /\ [][NextContexts]_vars

-----------------------------------------------------------------------------
(* Specification of the level: validation queries and collisions           *)

\* the earlier main registers every enemy as a *Mech, the player as a *PlayerMech
mechEntities ==
    {Registered("Mech", e) : e \in Enemies} \cup {Registered("PlayerMech", Player)}

Registries == {mainEntities, mechEntities}

\* the cells around the south-east corner of the play area
ProbeCells == {<<x, y>> : x \in 58..61, y \in 39..41}

InitLevel == \E registry \in Registries : Begun(registry, 0)

NextLevel ==
    \/ \E k \in Arrows : PlayerArrowTick(k)
    \/ \E a \in Actors, d \in Damages : HitOp(a, d)
    \/ \E m \in Actors, c \in ProbeCells : ValidMoveCall(m, c[1], c[2])
    \/ \E m \in Actors, c \in UNION Registries : Collide(m, c)

SpecLevel == InitLevel /\ [][NextLevel]_vars

-----------------------------------------------------------------------------
(* Specification of retries: an enemy followed from one strategy call past *)
(* the next                                                                *)

\* ticks a live enemy is followed for: the call, the wait and the next call
RetryTicks == moveDelayTicks + 2

InitRetry == Begun(mainEntities, MaxTicks - RetryTicks)

NextRetry ==
    \/ \E e \in Enemies, reroll \in BOOLEAN, d \in Dirs : EnemyTick(e, reroll, d)
    \/ \E e \in Enemies, d \in Damages : HitOp(e, d)
    \/ \E k \in Arrows : PlayerArrowTick(k)
    \/ \E m \in Actors, c \in mainEntities : Collide(m, c)

SpecRetry == InitRetry /\ [][NextRetry]_vars

-----------------------------------------------------------------------------
(* Specification of damage: Hit and Weapon.Fire with every kind of damage  *)
(* weapon.Create accepts                                                   *)

\* how far above its starting structure a mech is followed
MaxRepair == 2

\* Create takes any int as damage: below zero, zero, above zero
CarriedDamages == {-1, 0, MaxDamage}
CarriedWeapons ==
    {Create(MaxRange, d, "w", 5) : d \in CarriedDamages}
       \cup {SetLevel(Create(MaxRange, d, "w", 5)) : d \in CarriedDamages}

Followed(a) == structure[a] < maxStructure(a) + MaxRepair

InitDamage ==
    /\ impl \in Impls
    /\ NoInput
    /\ AtRest

\* Hit(damage) on a followed mech
CarriedHit(a, damage) == Followed(a) /\ HitOp(a, damage)

\* Weapon.Fire at a followed mech
CarriedFire(weapon, rangeToTarget, target, chance) ==
    Followed(target) /\ WeaponFireOp(weapon, rangeToTarget, target, chance)

NextDamage ==
    \/ \E a \in Actors, d \in CarriedDamages : CarriedHit(a, d)
    \/ \E w \in CarriedWeapons, r \in Ranges, t \in Actors, u \in Draws :
          CarriedFire(w, r, t, u)

SpecDamage == InitDamage /\ [][NextDamage]_vars

-----------------------------------------------------------------------------
(* Specification of enemy generation *)

\* how many enemies are asked for
MaxNumber == 2

\* random positions drawn: off the map, and three on it
GenCells == {<<-15, -15>>, <<0, 0>>, <<3, 4>>, <<14, 14>>}

\* the level handed to GenerateEnemyMechs: the building of the first block
\* and the first computer user
GenLevel == {Static(<<buildingMargin, 1>>), Static(<<5, 5>>)}

InitGenerate ==
    /\ impl \in Impls
    /\ structure = [a \in Actors |-> maxStructure(a)]
    /\ pos = [a \in Actors |-> IF a = Player THEN PlayerStart ELSE DeadCell]
    /\ prev = pos
    /\ tickCount = [e \in Enemies |-> 0]
    /\ strat = [e \in Enemies |-> NewRandomWalkStrategy]
    /\ entities = GenLevel
    /\ fault = FALSE
    /\ last = Last("main", NoActor, World(structure), <<>>)
    /\ ticks = 0
    /\ age = [e \in Enemies |-> 0]
    /\ NoInput
    /\ \E number \in 1..MaxNumber : gen = Generation(number)
    /\ rejected = [e \in Enemies |-> NoRejection]
    /\ calls = NoCalls

NextGenerate ==
    \/ \E c \in GenCells : GenerateAttempt(c[1], c[2])
    \/ GeneratePlace
    \/ \E c \in GenCells : GenerateFromAreas(c[1], c[2])

SpecGenerate == InitGenerate /\ [][NextGenerate]_vars

-----------------------------------------------------------------------------
(* Damage, destruction and fire *)

\* C1: Hit(d) with d > 0 takes d off the structure of a mech whose structure
\* is above 0, going below 0 if need be, and leaves the structure of a mech at
\* or below 0 as it is.
C1_HitContract ==
    [][last'.op = "Hit" =>
        \A a \in Actors, d \in Damages :
          (d > 0 /\ last'.who = a /\ HitOp(a, d)) =>
             structure'[a] = IF structure[a] > 0 THEN structure[a] - d ELSE structure[a]]_vars

\* C1 witness: a Hit on the player after its structure went below 0
C1_Witness ==
    /\ last.op = "Hit"
    /\ last.who = Player
    /\ structure[Player] < 0
    /\ last.msgs = <<>>

\* C21: no operation raises a mech's structure, whatever damage the weapon
\* or the Hit carries, so no mech is ever above the structure it was made
\* with.
C21_StructureNeverIncreases ==
    /\ [][\A a \in Actors : structure'[a] <= structure[a]]_vars
    /\ [](\A a \in Actors : structure[a] <= maxStructure(a))

\* C2: in every state IsDestroyed() is true exactly for the mechs whose
\* structure is at or below 0.
C2_DestroyedIffNoStructure ==
    \A a \in Actors : IsDestroyed(structure, a) <=> structure[a] <= 0

\* C2 witness: a Hit has just destroyed a mech while another one is alive
C2_Witness ==
    /\ last.op = "Hit"
    /\ last.removed = <<last.who>>
    /\ IsDestroyed(structure, last.who)
    /\ \E a \in Actors : ~IsDestroyed(structure, a)

\* C3: once a mech's structure is at or below 0 no operation changes it again.
C3_DestructionTerminal ==
    [][\A a \in Actors : structure[a] <= 0 => structure'[a] = structure[a]]_vars

\* C3 witness: a weapon has hit a mech that a Hit had destroyed before
C3_Witness ==
    /\ last.op = "Weapon.Fire"
    /\ last.rets = <<TRUE>>
    /\ last.msgs = <<>>
    /\ structure[last.who] < 0

\* C4: Fire at a range beyond maxRange returns false and leaves every
\* structure alone, with no damage or destruction message, whatever the hit
\* rate and the draw.
C4_OutOfRangeFire ==
    [][last'.op = "Weapon.Fire" =>
        \A w \in WeaponSet, r \in Ranges, t \in Actors, u \in Draws :
          (r > w.maxRange /\ last'.who = t /\ last'.range = r
             /\ WeaponFireOp(w, r, t, u)) =>
             /\ last'.rets = <<FALSE>>
             /\ structure' = structure
             /\ last'.msgs = <<>>
             /\ last'.removed = <<>>]_vars

\* C4 witness: a weapon was fired at a live mech from beyond its reach
C4_Witness ==
    /\ last.op = "Weapon.Fire"
    /\ last.range > MaxRange
    /\ last.who \in Actors
    /\ structure[last.who] > 0

\* C33: Weapon.Fire with a level attached adds one bullet to the level
\* whenever the target is within maxRange, on a hit and on a miss alike; it
\* adds none when the target is beyond maxRange or no level is attached.
C33_BulletWhenInRange ==
    [][last'.op = "Weapon.Fire" =>
        \A w \in CarriedWeapons, r \in Ranges, t \in Actors, u \in Draws :
          (last'.who = t /\ last'.range = r /\ CarriedFire(w, r, t, u)) =>
             last'.bullets = IF w.level /\ r <= w.maxRange THEN 1 ELSE 0]_vars

\* C33 witness: a shot within reach missed and its bullet is in the level
C33_Witness ==
    /\ last.op = "Weapon.Fire"
    /\ last.range <= MaxRange
    /\ last.rets = <<FALSE>>
    /\ last.bullets = 1

\* the damage messages among msgs
Takes(msgs) == {i \in 1..Len(msgs) : Len(msgs[i]) = 3 /\ msgs[i][2] = "takes"}

\* C5: Fire within maxRange returns true exactly when the draw is at most the
\* hit rate; a hit applies Hit(damage) once, so a live target loses exactly
\* damage, and a miss changes no structure and reports no damage.
C5_InRangeFire ==
    [][last'.op = "Weapon.Fire" =>
        \A w \in WeaponSet, r \in Ranges, t \in Actors, u \in Draws :
          (r <= w.maxRange /\ last'.who = t /\ last'.range = r
             /\ WeaponFireOp(w, r, t, u)) =>
             /\ last'.rets = <<u <= w.hitRate>>
             /\ structure' = IF u <= w.hitRate /\ structure[t] > 0
                             THEN [structure EXCEPT ![t] = @ - w.damage]
                             ELSE structure
             /\ Cardinality(Takes(last'.msgs))
                   = IF u <= w.hitRate /\ structure[t] > 0 THEN 1 ELSE 0]_vars

\* C5 witness: a shot within reach hit a mech, which is still alive
C5_Witness ==
    /\ last.op = "Weapon.Fire"
    /\ last.range <= MaxRange
    /\ last.rets = <<TRUE>>
    /\ last.msgs # <<>>
    /\ structure[last.who] > 0

\* where msgs reports damage to a, where it reports a's destruction, and
\* where removed asks for a's removal
TakesAt(msgs, a) ==
    {i \in 1..Len(msgs) : Len(msgs[i]) = 3 /\ msgs[i][1] = Name(a) /\ msgs[i][2] = "takes"}
DestroyedAt(msgs, a) ==
    {i \in 1..Len(msgs) :
        Len(msgs[i]) = 2 /\ msgs[i][1] = Name(a) /\ msgs[i][2] = "has been destroyed"}
RemovedAt(removed, a) == {i \in 1..Len(removed) : removed[i] = a}

\* C13: the operation that first brings a mech's structure to 0 or below
\* reports the destruction once and asks for the removal once, right after
\* its damage message; no other operation reports a destruction or asks for
\* a removal, and an operation on a destroyed mech reports no damage to it.
C13_DestroyedOnce ==
    [][\A a \in Actors :
          LET t == TakesAt(last'.msgs, a)
              d == DestroyedAt(last'.msgs, a)
              r == RemovedAt(last'.removed, a)
          IN IF structure[a] > 0 /\ structure'[a] <= 0
             THEN /\ Cardinality(d) = 1
                  /\ Cardinality(r) = 1
                  /\ \A i \in d : i - 1 \in t /\ \A j \in t : j < i
             ELSE /\ d = {}
                  /\ r = {}
                  /\ structure[a] <= 0 => t = {}]_vars

\* C13 witness: the first weapon of a volley destroyed the target and the
\* second hit the wreck
C13_Witness ==
    /\ last.op = "Player.attack"
    /\ last.rets = <<TRUE, TRUE>>
    /\ Len(last.msgs) = 2
    /\ DestroyedAt(last.msgs, last.who) = {2}
    /\ last.removed = <<last.who>>

\* the mech an attack key resolves to is missing or already destroyed
NoLiveTarget(ch) ==
    LET target == getTargetEnemy(<<attackLetter(ch)>>)
    IN IF target = NilMech THEN TRUE ELSE structure[target] <= 0

\* C6: an attack key that resolves to no roster enemy, or to a destroyed one,
\* fires nothing, reports nothing, changes no mech and raises no fault.
C6_SilentNoOp ==
    [][last'.op = "Player.attack" =>
        \A ch \in Chars, us \in Volleys :
          (attackLetter(ch) # "" /\ NoLiveTarget(ch)
             /\ PlayerCharTick(ch, us)) =>
             /\ ~fault'
             /\ structure' = structure
             /\ pos' = pos
             /\ entities' = entities
             /\ last'.rets = <<>>
             /\ last'.msgs = <<>>
             /\ last'.bullets = 0]_vars

\* the mech an attack key resolves to is a live roster enemy
LiveTarget(ch) == attackLetter(ch) # "" /\ ~NoLiveTarget(ch)

\* C16: when the player's attack fires at a live target, the range handed to
\* the weapons is |prevX - tx| + |prevY - ty| for the attacker's cached
\* previous position and the target's position.
C16_ManhattanRange ==
    [][last'.op = "Player.attack" =>
        \A ch \in Chars, us \in Volleys :
          (LiveTarget(ch) /\ PlayerCharTick(ch, us)) =>
             LET t == getTargetEnemy(<<attackLetter(ch)>>)
             IN last'.range = Abs(prev'[Player][1] - pos'[t][1])
                                + Abs(prev'[Player][2] - pos'[t][2])]_vars

\* C16 witness: an attack on a live enemy that stood off the attacker's row
\* and column
C16_Witness ==
    /\ last.op = "Player.attack"
    /\ last.who \in Enemies
    /\ last.rets # <<>>
    /\ pos[last.who][1] # prev[Player][1]
    /\ pos[last.who][2] # prev[Player][2]
    /\ last.range > 1

\* C17: one attack on a live target fires every weapon of the loadout once,
\* in the order the weapons were added: weapon i answers for draw i, and a
\* weapon in reach puts its bullet in the level even when an earlier weapon
\* of the volley destroyed the target.
C17_WholeLoadoutFires ==
    [][last'.op = "Player.attack" =>
        \A ch \in Chars, us \in Volleys :
          (LiveTarget(ch) /\ PlayerCharTick(ch, us)) =>
             LET ws == weapons(Player)
             IN /\ Len(last'.rets) = Len(ws)
                /\ \A i \in 1..Len(ws) :
                      last'.rets[i] = (last'.range <= ws[i].maxRange /\ us[i] <= ws[i].hitRate)
                /\ last'.bullets
                      = Cardinality({i \in 1..Len(ws) : last'.range <= ws[i].maxRange})]_vars

\* C17 witness: the first weapon destroyed the target and the second was
\* fired all the same
C17_Witness ==
    /\ last.op = "Player.attack"
    /\ last.removed = <<last.who>>
    /\ TakesAt(last.msgs, last.who) = {1}
    /\ Len(last.rets) = 2
    /\ last.bullets = 2

\* the places of the messages of msgs that report a miss
Misses(msgs) == {i \in DOMAIN msgs : msgs[i][2] = "Missed"}

\* C32: Mech.Fire sends one "Missed <target name>" message for each weapon
\* whose Fire returned false, a weapon too short for the range included, and
\* none for a weapon that hit.
C32_MissReportedPerWeapon ==
    last.op = "Player.attack" =>
       /\ Cardinality(Misses(last.msgs))
             = Cardinality({i \in DOMAIN last.rets : ~last.rets[i]})
       /\ \A i \in Misses(last.msgs) : last.msgs[i] = <<Name(last.who), "Missed">>

\* C32 witness: of one volley the first weapon hit and the second was too
\* short for the range
C32_Witness ==
    /\ last.op = "Player.attack"
    /\ last.rets = <<TRUE, FALSE>>
    /\ last.range > weapons(Player)[2].maxRange
    /\ Cardinality(Misses(last.msgs)) = 1

\* C18: an arrow key puts the player exactly one cell from where it stood
\* when the event arrived (right x+1, left x-1, up y-1, down y+1), whether
\* or not that cell is inside the play area or free.
C18_ArrowMoveUnchecked ==
    [][last'.op = "Player.Move" =>
        \A key \in Arrows :
          PlayerArrowTick(key) =>
             LET x == pos[Player][1]
                 y == pos[Player][2]
             IN pos'[Player] = CASE key = "ArrowRight" -> <<x + 1, y>>
                                 [] key = "ArrowLeft" -> <<x - 1, y>>
                                 [] key = "ArrowUp" -> <<x, y - 1>>
                                 [] key = "ArrowDown" -> <<x, y + 1>>]_vars

\* C18 witness: the player stepped off a cell a live enemy stands on to a
\* cell outside the play area
C18_Witness ==
    /\ last.op = "Player.Move"
    /\ pos[Player] = last.cand
    /\ ~validatePoint(pos[Player][1], pos[Player][2])
    /\ \E e \in Enemies : structure[e] > 0 /\ pos[e] = prev[Player]

\* the roster enemies whose name ends with the letter L
Matching(L) == {roster[i] : i \in {j \in 1..Len(roster) : HasSuffix(Name(roster[j]), <<L>>)}}

-----------------------------------------------------------------------------
(* Enemy generation *)

\* a strategy an enemy can be moved by
Usable(s) == s.kind \in {"RandomWalk", "Patrol"}

\* C20: GenerateEnemyMechs(n) never aborts and returns n enemies that each
\* hold a usable strategy; an enemy for which ten positions gave no patrol
\* route, or for which NewPatrolStrategy failed, is given a random walk.
C20_GenerationFallsBack ==
    /\ [](~fault)
    /\ [](\A k \in 1..Len(gen.enemyMechs) : Usable(gen.enemyMechs[k].strategy))
    /\ [](gen.returned => Len(gen.enemyMechs) = gen.number)
    /\ [][(gen'.i = gen.i + 1 /\ impl = "mech.go") =>
            LET m == gen'.enemyMechs[gen'.i]
            IN (\/ gen.attempts = maxAttempts
                \/ ~Usable(gen.strategy)) => m.strategy.kind = "RandomWalk"]_vars

\* C20 witness: both enemies are returned, the first on a random walk after
\* ten positions without a route, the second on a patrol
C20_Witness ==
    /\ impl = "mech.go"
    /\ gen.returned
    /\ Len(gen.enemyMechs) = 2
    /\ gen.enemyMechs[1].strategy.kind = "RandomWalk"
    /\ gen.enemyMechs[1].at = <<-15, -15>>
    /\ gen.enemyMechs[2].strategy.kind = "Patrol"

\* C37: every enemy GenerateEnemyMechs(n) returns, for n >= 1, is alive when
\* it is created: its structure is its maxStructure and is above 0, so it is
\* not destroyed before any Hit.
C37_GeneratedAlive ==
    \A k \in 1..Len(gen.enemyMechs) :
       /\ gen.enemyMechs[k].structure = gen.enemyMechs[k].maxStructure
       /\ gen.enemyMechs[k].structure > 0

\* the lower-case letter of the key for an attack letter
LowerCase(ch) ==
    CASE ch = "A" -> "a" [] ch = "B" -> "b" [] ch = "C" -> "c" [] ch = "D" -> "d"
      [] ch = "E" -> "e" [] ch = "F" -> "f" [] ch = "G" -> "g" [] ch = "H" -> "h"
      [] OTHER -> ch

\* C38: a key event with an upper-case letter 'A'..'H' triggers the attack
\* of the lower-case letter: attack is called once with that letter, and the
\* tick does what the tick on the lower-case key does.
C38_UpperCaseAttacks ==
    [][last'.op \in {"Player.Key", "Player.attack"} =>
        \A ch \in Chars, us \in Volleys :
          (attackLetter(LowerCase(ch)) # "" /\ PlayerCharTick(ch, us)) =>
             /\ last'.op = "Player.attack"
             /\ PlayerCharTick(LowerCase(ch), us)]_vars

\* C39: no tick of an enemy changes any structure; structure changes only on
\* a player attack key that resolves to a roster enemy, and then only that
\* enemy's structure, downward; so the player's structure is its creation
\* value in every state of the game main builds.
C39_OnlyPlayerAttackDamages ==
    /\ [](structure[Player] = maxStructure(Player))
    /\ [][last'.op = "Enemy.Tick" => structure' = structure]_vars
    /\ [][structure' # structure =>
            /\ last'.op = "Player.attack"
            /\ \E i \in 1..Len(roster) : roster[i] = last'.who
            /\ \A a \in Actors :
                  IF a = last'.who THEN structure'[a] < structure[a]
                  ELSE structure'[a] = structure[a]]_vars

\* C39 witness: the player has brought an enemy down and the enemies have
\* had a tick since
C39_Witness ==
    /\ last.op = "Enemy.Tick"
    /\ structure[Player] = maxStructure(Player)
    /\ \E e \in Enemies : structure[e] < maxStructure(e)

\* C26: once the player's structure is at or below 0, an arrow key leaves
\* its position as it is and an attack key fires none of its weapons.
C26_DestroyedPlayerInert ==
    [][structure[Player] <= 0 =>
          /\ pos'[Player] = pos[Player]
          /\ last'.op = "Player.attack" =>
                /\ last'.rets = <<>>
                /\ last'.bullets = 0
                /\ structure' = structure]_vars

-----------------------------------------------------------------------------
(* Autonomous movement and validation *)

\* C7: on the tick that brings a live enemy's counter to moveDelay the enemy
\* ends on the strategy's candidate if isValidMove accepts it and stays where
\* it was if not, without a fault.
C7_TickCommitsOnlyValid ==
    [][last'.op = "Enemy.Tick" =>
        \A e \in Enemies, reroll \in BOOLEAN, d \in Dirs :
          (structure[e] > 0 /\ tickCount[e] + 1 >= moveDelayTicks
             /\ last'.who = e /\ EnemyTick(e, reroll, d)) =>
             LET c == NextMove(strat[e], pos[e][1], pos[e][2], reroll, d).to
             IN /\ pos'[e] = IF isValidMove(e, c[1], c[2]) THEN c ELSE pos[e]
                /\ ~fault']_vars

\* C7 witness: a live enemy's candidate for a new cell was rejected
C7_Witness ==
    /\ last.op = "Enemy.Tick"
    /\ last.called
    /\ ~last.valid
    /\ last.cand # pos[last.who]
    /\ structure[last.who] > 0

\* C35: an enemy that starts inside [minCoordinate, maxLevelWidth] x
\* [minCoordinate, maxLevelHeight] stands inside it in every reachable state,
\* whatever the ticks, the strategy's candidates, the rejections and the
\* rollbacks of Collide.
C35_EnemyStaysInside ==
    \A e \in Enemies :
       /\ minCoordinate <= pos[e][1] /\ pos[e][1] <= maxLevelWidth
       /\ minCoordinate <= pos[e][2] /\ pos[e][2] <= maxLevelHeight

\* C35 witness: the strategy of a live enemy on the east edge asked for the
\* cell beyond it
C35_Witness ==
    /\ last.op = "Enemy.Tick"
    /\ last.called
    /\ last.cand[1] > maxLevelWidth
    /\ structure[last.who] > 0
    /\ pos[last.who][1] = maxLevelWidth

C12_DestroyedTickFrame ==
    [][last'.op = "Enemy.Tick" =>
        \A e \in Enemies, reroll \in BOOLEAN, d \in Dirs :
          (structure[e] <= 0 /\ last'.who = e
             /\ EnemyTick(e, reroll, d)) =>
             /\ ~last'.called
             /\ pos'[e] = pos[e]
             /\ tickCount'[e] = tickCount[e]
             /\ strat'[e] = strat[e]
             /\ age'[e] = age[e]]_vars

\* C12 witness: an enemy destroyed one tick short of a move has been ticked
C12_Witness ==
    /\ last.op = "Enemy.Tick"
    /\ ~last.called
    /\ structure[last.who] < 0
    /\ tickCount[last.who] = WarmTickCount

\* C25: the tick on which isValidMove turns the candidate down leaves the
\* enemy where it was with its counter at 0 and raises no fault; while the
\* enemy is not destroyed it stays on that cell, and the next tick of its own
\* that calls NextMove is the moveDelayTicks-th after the rejection, no
\* earlier and no later.
C25_RejectedMoveRetried ==
    /\ [](\A e \in Enemies :
            (structure[e] > 0 /\ rejected[e].age >= 0) =>
               /\ pos[e] = rejected[e].at
               /\ age[e] - rejected[e].age < moveDelayTicks)
    /\ [][last'.op = "Enemy.Tick" =>
            \A e \in Enemies, reroll \in BOOLEAN, d \in Dirs :
              (structure[e] > 0 /\ last'.who = e /\ EnemyTick(e, reroll, d)) =>
                 /\ (last'.called /\ ~last'.valid) =>
                       /\ pos'[e] = pos[e]
                       /\ tickCount'[e] = 0
                       /\ rejected'[e] = [age |-> age'[e], at |-> pos[e]]
                       /\ ~fault'
                 /\ rejected[e].age >= 0 =>
                       (last'.called <=> age'[e] = rejected[e].age + moveDelayTicks)]_vars

\* C25 witness: the enemy at (60,39), whose first candidate is turned down
\* whatever the strategy draws, is asked again on its moveDelayTicks-th tick
\* after that
C25_Witness ==
    /\ last.op = "Enemy.Tick"
    /\ last.called
    /\ structure[last.who] > 0
    /\ pos[last.who] = <<60, 39>>
    /\ age[last.who] = WarmAge + 1 + moveDelayTicks

\* C28: every EnemyMech.Tick, moving or not, ends with (prevX, prevY) on the
\* cell the enemy had when the tick began, and a Collide on the enemy after
\* that puts it back on that cell.
C28_PrevIsPreTickCell ==
    /\ [][last'.op = "Enemy.Tick" =>
            \A e \in Enemies, reroll \in BOOLEAN, d \in Dirs :
              (last'.who = e /\ EnemyTick(e, reroll, d)) => prev'[e] = pos[e]]_vars
    /\ [][last'.op = "Collide" =>
            \A e \in Enemies, c \in mainEntities :
              (last'.who = e /\ Collide(e, c)) => pos'[e] = prev[e]]_vars

\* C22: a call of isValidMove, accepting or rejecting, leaves every mech's
\* position, previous position and structure and the level's entities as
\* they were.
C22_ValidatorChangesNothing ==
    [][last'.op = "isValidMove" =>
          /\ pos' = pos
          /\ prev' = prev
          /\ structure' = structure
          /\ entities' = entities
          /\ tickCount' = tickCount
          /\ strat' = strat]_vars

\* C22 witness: isValidMove has rejected a cell inside the play area for a
\* mech that had moved since its position was cached
C22_Witness ==
    /\ last.op = "isValidMove"
    /\ ~last.valid
    /\ validatePoint(last.cand[1], last.cand[2])
    /\ prev[last.who] # pos[last.who]

\* C27: Collide called on a mech with another mech, registered as a Mech, an
\* EnemyMech or a PlayerMech, puts the mech back on (prevX, prevY).
C27_CollideRestores ==
    [][last'.op = "Collide" =>
        \A m \in Actors, c \in UNION Registries :
          (last'.who = m /\ Collide(m, c)) => pos'[m] = prev[m]]_vars

\* C8: isValidMove rejects a cell outside the play area and a cell another
\* tracked entity stands on, and accepts every other cell.
C8_ValidatorContract ==
    \A m \in Actors, c \in ProbeCells :
       isValidMove(m, c[1], c[2]) <=>
          /\ c[1] \in minCoordinate..maxLevelWidth
          /\ c[2] \in minCoordinate..maxLevelHeight
          /\ ~ \E entity \in entities : entity.of # m /\ EntityPosition(entity) = c

\* C23: a mech that main registered is never the reason its own candidate
\* is rejected: when it stands inside the play area and no other entity is on
\* its cell, isValidMove accepts that cell.
C23_OwnCellAccepted ==
    \A m \in Actors :
       (/\ \E kind \in {"EnemyMech", "PlayerMech"} : Registered(kind, m) \in entities
        /\ validatePoint(pos[m][1], pos[m][2])
        /\ ~ \E entity \in entities : entity.of # m /\ EntityPosition(entity) = pos[m])
          => isValidMove(m, pos[m][1], pos[m][2])

\* C24: once a Hit has destroyed a mech that main registered, the level holds
\* no entry for it, and every other mech may move to the cell it stood on
\* unless something else is there.
C24_DestroyedLeavesLevel ==
    last.removed # <<>> =>
       LET d == last.removed[1]
       IN /\ \A entity \in entities : entity.of # d
          /\ \A m \in Actors \ {d} :
                (/\ validatePoint(pos[d][1], pos[d][2])
                 /\ ~ \E a \in Actors \ {d} : pos[a] = pos[d])
                   => isValidMove(m, pos[d][1], pos[d][2])

-----------------------------------------------------------------------------
(* Patrol construction and patrol cycling *)

\* the list is one NewPatrolStrategy has to accept
ValidList(points) ==
    /\ Len(points) >= 2
    /\ \A i \in 1..Len(points) :
          /\ points[i][1] \in minCoordinate..maxLevelWidth
          /\ points[i][2] \in minCoordinate..maxLevelHeight

\* the cell NextMove returned is at most one cell from (x, y) on either axis
OneCellFrom(x, y) == Abs(last'.cand[1] - x) <= 1 /\ Abs(last'.cand[2] - y) <= 1

\* C14 as stated: RandomWalkStrategy.NextMove(x, y) returns a position at
\* most one cell from (x, y) on either axis, for every position (x, y).
C14_StepAtMostOneCell ==
    [][\A c \in WalkInputs, reroll \in BOOLEAN, d \in Dirs :
          WalkCall(c[1], c[2], reroll, d) => OneCellFrom(c[1], c[2])]_vars

\* C14 as amended: RandomWalkStrategy.NextMove(x, y) returns a position at
\* most one cell from (x, y) on either axis, for every position (x, y)
\* inside the play area.
C14_StepAtMostOneCellInside ==
    [][\A c \in WalkInputs, reroll \in BOOLEAN, d \in Dirs :
          (validatePoint(c[1], c[2]) /\ WalkCall(c[1], c[2], reroll, d)) =>
             OneCellFrom(c[1], c[2])]_vars

\* C14 witness: a random walk called inside the play area returned another cell
C14_Witness ==
    /\ last.op = "RandomWalk.NextMove"
    /\ validatePoint(cur[1], cur[2])
    /\ last.cand # cur

\* C15: the position NextMove of either strategy returns lies inside the
\* play area, whatever position it was called with.
C15_ResultInsidePlayArea ==
    last.op \in {"RandomWalk.NextMove", "Patrol.NextMove"} =>
       validatePoint(last.cand[1], last.cand[2])

\* what an accumulator holds after a call is what it held, plus the per-call
\* step, minus whole emitted cells, and cells are emitted only from a
\* magnitude of at least one cell
Carried(old, step, new) ==
    LET sum == old + step
    IN /\ (sum - new) % minStepThreshold = 0
       /\ sum - new # 0 => Abs(sum) >= minStepThreshold

\* C29: in every NextMove call of either strategy each accumulator ends at
\* its old value plus the step of that call minus the cells emitted on its
\* axis, cells being emitted only when the sum reaches a whole cell; no call
\* writes over what had been accumulated.
C29_AccumulatorsCarry ==
    [][last'.op \in {"RandomWalk.NextMove", "Patrol.NextMove"} =>
          /\ Carried(ps.stepX, ps'.dir[1], ps'.stepX)
          /\ Carried(ps.stepY, ps'.dir[2], ps'.stepY)
          /\ impl = "strategy.go" =>
                /\ last'.cand[1] - cur'[1]
                      = (ps.stepX + ps'.dir[1] - ps'.stepX) \div minStepThreshold
                /\ last'.cand[2] - cur'[2]
                      = (ps.stepY + ps'.dir[2] - ps'.stepY) \div minStepThreshold]_vars

\* C34: the per-call step of a patrol toward a target at offset (dx, dy) is
\* moveStep * (dx / m, dy / m) with m the larger of |dx| and |dy|, and (0, 0)
\* at offset (0, 0): the larger axis gains moveStep in magnitude, the other
\* no more, and the step is the one the accumulators take.
C34_LargerComponentNormalization ==
    [][last'.op = "Patrol.NextMove" =>
        LET dx == ps'.targetX - cur'[1]
            dy == ps'.targetY - cur'[2]
            m == IF Abs(dx) > Abs(dy) THEN Abs(dx) ELSE Abs(dy)
        IN /\ (dx = 0 /\ dy = 0) => ps'.dir = <<0, 0>>
           /\ m > 0 =>
                 /\ ps'.dir[1] = Sign(dx) * ((moveStep * Abs(dx)) \div m)
                 /\ ps'.dir[2] = Sign(dy) * ((moveStep * Abs(dy)) \div m)
                 /\ (IF Abs(dx) > Abs(dy) THEN Abs(ps'.dir[1]) ELSE Abs(ps'.dir[2])) = moveStep
           /\ Carried(ps.stepX, ps'.dir[1], ps'.stepX)
           /\ Carried(ps.stepY, ps'.dir[2], ps'.stepY)]_vars

\* C9: NewPatrolStrategy gives a strategy for exactly the lists of two or more
\* in-bounds points and reports every other list as a returned error, never
\* by a panic.
C9_ConstructionContract ==
    ps.kind # "nil" =>
       /\ ps.kind = IF ValidList(pts) THEN "Patrol" ELSE "error"
       /\ ~fault

\* the patrol stands on waypoint i while waypoint i is its target
Arrived(i) ==
    /\ ps.kind = "Patrol"
    /\ i <= Len(pts)
    /\ ps.currPoint = i - 1
    /\ cur = pts[i]

\* C10: a patrol that starts on its first waypoint and is fed its own results
\* stands on every waypoint while that waypoint is its target, and from there
\* always comes to stand on the next one of the list (the first after the
\* last), so the round is repeated forever.
C10_PatrolVisitsInOrder ==
    /\ (ps.kind = "Patrol") ~> Arrived(1)
    /\ \A i \in 1..MaxPoints :
          Arrived(i) ~> Arrived((i % Len(pts)) + 1)
    /\ [][ps.kind = "Patrol" /\ ps'.currPoint # ps.currPoint =>
             /\ Arrived(ps.currPoint + 1)
             /\ ps'.currPoint = (ps.currPoint + 1) % Len(pts)]_vars

\* C10 witness: the patrol is back on its first waypoint after a full round
C10_Witness ==
    /\ Arrived(1)
    /\ Len(pts) = MaxPoints
    /\ ps.stepX # 0
    /\ pts[1] # pts[2] /\ pts[2] # pts[3] /\ pts[1] # pts[3]

\* C36: a patrol that was constructed has, in every state, an index from 0
\* to the number of its waypoints less one, and its target is the waypoint
\* stored at that index.
C36_IndexAndTargetAgree ==
    ps.kind = "Patrol" =>
       /\ 0 <= ps.currPoint
       /\ ps.currPoint < Len(ps.points)
       /\ ps.targetX = ps.points[ps.currPoint + 1][1]
       /\ ps.targetY = ps.points[ps.currPoint + 1][2]

\* C36 witness: a patrol of three waypoints is under way to its last one
C36_Witness ==
    /\ ps.kind = "Patrol"
    /\ Len(ps.points) = MaxPoints
    /\ ps.currPoint = MaxPoints - 1
    /\ cur # ps.points[MaxPoints]
    /\ cur # ps.points[MaxPoints - 1]

\* C30: a NextMove call of a patrol moves the index on only when the
\* position it is given is the active waypoint itself, then by one place and
\* from the last place to 0, the target becoming the waypoint of the new
\* index; every other call leaves index and target as they were.
C30_IndexAdvancesOnArrival ==
    /\ [](ps.kind = "Patrol" => <<ps.targetX, ps.targetY>> = ps.points[ps.currPoint + 1])
    /\ [][(ps.kind = "Patrol" /\ ps'.kind = "Patrol") =>
            IF cur = ps.points[ps.currPoint + 1]
            THEN /\ ps'.currPoint = (ps.currPoint + 1) % Len(ps.points)
                 /\ <<ps'.targetX, ps'.targetY>> = ps.points[ps'.currPoint + 1]
            ELSE /\ ps'.currPoint = ps.currPoint
                 /\ ps'.targetX = ps.targetX
                 /\ ps'.targetY = ps.targetY]_vars

\* C30 witness: a call made on the last of three waypoints has taken the
\* index back to 0
C30_Witness ==
    /\ ps.kind = "Patrol"
    /\ Len(pts) = MaxPoints
    /\ pts[1] # pts[MaxPoints]
    /\ cur = pts[MaxPoints]
    /\ ps.currPoint = 0
    /\ <<ps.targetX, ps.targetY>> = pts[1]

-----------------------------------------------------------------------------
(* Concurrent calls of one random walk                                        *)

\* the calls made one after another in the given order, call i taking draws[i]
RECURSIVE SerialFrom(_, _, _, _, _)
SerialFrom(s, order, draws, i, tos) ==
    IF i > Len(order) THEN [s |-> s, to |-> tos]
    ELSE LET n == RandomWalkNextMove(s, cur[1], cur[2], draws[i].reroll, draws[i].d)
         IN SerialFrom(n.s, order, draws, i + 1, [tos EXCEPT ![order[i]] = n.to])

\* what the serial orders of the calls leave: every call with the draw it took
\* itself, or the draws handed out in the order of the calls
SerialOutcomes ==
    LET Orders == {o \in [Contexts -> Contexts] : \A c, e \in Contexts : o[c] = o[e] => c = e}
        none == [c \in Contexts |-> NoCell]
    IN {SerialFrom(calls.start, o, [i \in Contexts |-> calls.of[o[i]]], 1, none) : o \in Orders}
       \cup {SerialFrom(calls.start, o, calls.draws, 1, none) : o \in Orders}

\* C31: concurrent NextMove calls on one RandomWalkStrategy leave the
\* accumulators, and return the positions, of some serial order of the calls:
\* between a call's updateDirection and its accumulateSteps no other call
\* re-rolls the direction or accumulates.
C31_CallsSerial ==
    /\ []((\A c \in Contexts : calls.of[c].pc = "returned") =>
             [s |-> ps, to |-> [c \in Contexts |-> calls.of[c].to]] \in SerialOutcomes)
    /\ [][\A c \in Contexts : calls.of[c].pc = "updated" =>
             \A e \in Contexts \ {c} : calls'.of[e] = calls.of[e]]_vars

====
